---- MODULE Spec2Model ----
(***************************************************************************)
(* A model of samplingfdw: the SamplingFdw orchestrator driving a          *)
(* SelectionSamplingStrategy over a remote table and its local mirror, the *)
(* same orchestrator over RemoteSamplingStrategy and over the defaults of  *)
(* SamplingStrategy, the metadata table, two server processes on one       *)
(* mirror, and the remote path of a read followed row by row.              *)
(*                                                                         *)
(* A table is a bag of rows.  The remote table carries the PRIMARY KEY on  *)
(* id that scripts/setup_remote_database.py declares; the local table is   *)
(* created by create_table from the column definitions alone and carries   *)
(* no constraint, so it may hold the same row more than once.              *)
(***************************************************************************)
EXTENDS Integers, Sequences, FiniteSets, Bags, TLC

\* Bounds of the model: the ids a row may carry, the rows the mirror table
\* may hold, the largest magnitude of rows_stored_locally, the quals of one
\* query, and the rows one remote fetch yields when it is followed row by row.  Every property below is checked with these bounds and again
\* with each of them one higher.
MaxId == 1
MaxLocalRows == 1
MaxCount == 1
MaxQuals == 2
MaxFetched == 2

Ids == 1..MaxId
ColumnDomain == {"foo", "bar", "baz"}
Rows == [id : Ids, col : ColumnDomain]

\* options["column"]: the column the selection is made on.
column == "col"

\* options["column_values"].split(","): the allow-list, in the order written.
ColumnValuesOptions == {<<"foo">>, <<"foo", "bar">>}

\* The options SamplingFdw.__init__ requires, in the order it tests them, and
\* the ones SelectionSamplingStrategy.on_open requires, in its order.
RequiredOptions == <<"sampling_strategy", "name", "table_name">>
SelectionOptions == <<"column", "column_values">>
OptionKeys ==
  {RequiredOptions[i] : i \in 1..Len(RequiredOptions)}
    \cup {SelectionOptions[i] : i \in 1..Len(SelectionOptions)}

\* The names SamplingStrategyRegistry.register is called with.
Strategies == {"selection_sampling_strategy", "remote_sampling_strategy"}

\* A strategy registered by a module of the user's that subclasses
\* SamplingStrategy and overrides nothing: every method is the default.
DefaultStrategy == "sampling_strategy"

\* The options of one foreign table: the keys that are present, the strategy
\* named and the allow-list written.
Options(sampling_strategy, present, column_values) ==
  [sampling_strategy |-> sampling_strategy, present |-> present,
   column_values |-> column_values]

\* A selection mirror with every option in place.
SelectionConfigurations ==
  {Options("selection_sampling_strategy", OptionKeys, cv) :
     cv \in ColumnValuesOptions}

\* The same with one option left out, and a remote_sampling_strategy table,
\* which takes none of the selection options.
Configurations ==
  SelectionConfigurations
    \cup {Options("selection_sampling_strategy", OptionKeys \ {k}, <<"foo">>) :
           k \in OptionKeys}
    \cup {Options("remote_sampling_strategy",
                  OptionKeys \ {"column", "column_values"}, <<"foo">>)}
    \cup {Options("remote_sampling_strategy",
                  (OptionKeys \ {"column", "column_values"})
                    \cup {"primary_key"}, <<"foo">>)}

\* The tables of strategies that keep no mirror: remote_sampling_strategy with
\* and without primary_key, and a strategy of defaults only.
MirrorlessConfigurations ==
  {c \in Configurations : c.sampling_strategy = "remote_sampling_strategy"}
    \cup {Options(DefaultStrategy,
                  (OptionKeys \ {"column", "column_values"})
                    \cup {"primary_key"}, <<"foo">>)}

\* options["name"] and options["table_name"], and the other values a caller of
\* MetadataFdw.update may write into those columns.
name == "my_sampling_fdw"
table_name == "remote_table"
NameDomain == {name, "other_fdw"}
TableNameDomain == {table_name, "other_table"}

Operators == {"="}
Qual(field_name, operator, value) ==
  [field_name |-> field_name, operator |-> operator, value |-> value]
AllQuals == {Qual(column, op, v) : op \in Operators, v \in ColumnDomain}
QualSets == {qs \in SUBSET AllQuals : Cardinality(qs) <= MaxQuals}

VARIABLES
  options,              \* the foreign table's options, fixed at Init
  remote_table,         \* bag of rows of table_name in the remote database
  local_table_exists,   \* whether _local_<table_name> exists in the local database
  local_table,          \* bag of rows of _local_<table_name>
  registry,             \* SamplingFdw.registry: whether an instance is published
  rows_stored_locally,  \* the instance's accumulator
  rows_stored_locally_set,  \* whether the published instance has the attribute
  metadata_rows,        \* the rows the last scan of MetadataFdw yielded
  other_backend,        \* registry and accumulator of a second server process
  remote_read,          \* a remote-fallback read in flight: generator and tee
  last                  \* history: the last operation, its inputs and what it did

vars == <<options, remote_table, local_table_exists, local_table, registry,
          rows_stored_locally, rows_stored_locally_set, metadata_rows,
          other_backend, remote_read, last>>

----------------------------------------------------------------------------
\* Bags of rows.

Copies(row, n) == IF n > 0 THEN [r \in {row} |-> n] ELSE EmptyBag
Count(table, row) == IF row \in DOMAIN table THEN table[row] ELSE 0
Restrict(table, keep) == [r \in {x \in DOMAIN table : x \in keep} |-> table[r]]

\* str(qual) inside a WHERE clause: the comparison a Qual stands for.
QualHolds(row, qual) ==
  IF qual.operator = "=" THEN row[qual.field_name] = qual.value
  ELSE row[qual.field_name] # qual.value

\* " AND ".join(str(qual) for qual in quals)
WhereQuals(row, quals) == \A qual \in quals : QualHolds(row, qual)

\* value in column_values
InList(value, column_values) ==
  \E i \in 1..Len(column_values) : column_values[i] = value

Eligible(values) == InList(values[column], options.column_values)

\* The first option of a list of required ones that is not in options, which
\* is the one the loop over them reports; "none" when all are there.
FirstMissing(required) ==
  LET absent == {i \in 1..Len(required) : required[i] \notin options.present}
  IN IF absent = {} THEN "none"
     ELSE required[CHOOSE i \in absent : \A j \in absent : i <= j]

----------------------------------------------------------------------------
\* SamplingStrategy's statement helpers, as functions of the table they run on.

\* SELECT ... FROM table WHERE q1 AND q2 ...: the rows the cursor then yields.
execute_fetch_statement(table, quals) ==
  Restrict(table, {r \in DOMAIN table : WhereQuals(r, quals)})

\* INSERT INTO table ... VALUES ...; returns cursor.rowcount.
execute_insert_statement(table, values) ==
  [table |-> table (+) Copies(values, 1), rowcount |-> 1]

\* UPDATE table SET <newvalues> WHERE <every column of oldvalues matches>.
execute_update_statement(table, oldvalues, newvalues) ==
  LET n == Count(table, oldvalues) IN
  [table |-> (table (-) Copies(oldvalues, n)) (+) Copies(newvalues, n),
   rowcount |-> n]

\* DELETE FROM table WHERE <every column of oldvalues matches>.
execute_delete_statement(table, oldvalues) ==
  LET n == Count(table, oldvalues) IN
  [table |-> table (-) Copies(oldvalues, n), rowcount |-> n]

\* SELECT COUNT(*) FROM table
get_count(table) == BagCardinality(table)

\* INSERT INTO table VALUES %s, for every row of rows.
insert_values(table, rows) == table (+) rows

\* The remote table's PRIMARY KEY on id: the statement raises when the table
\* that would result holds two rows with one id.
PrimaryKeyHolds(table) ==
  /\ \A r \in DOMAIN table : table[r] = 1
  /\ \A r1, r2 \in DOMAIN table : r1.id = r2.id => r1 = r2

----------------------------------------------------------------------------
\* SelectionSamplingStrategy.

\* self.selection_quals, as on_open builds it: one equality per allow-list
\* entry, in the order of the list.
selection_quals ==
  [i \in 1..Len(options.column_values) |->
     Qual(column, "=", options.column_values[i])]

SelectionQualSet == {selection_quals[i] : i \in 1..Len(selection_quals)}

\* on_open without the early return for a table that is already there.
on_open_always_loads(remote, exists, local) ==
  LET fetched == execute_fetch_statement(remote, SelectionQualSet)
      loaded  == insert_values(local, fetched)
  IN [raised |-> FALSE, exists |-> TRUE,
      local_table |-> loaded, count |-> get_count(loaded),
      remote_calls |-> 1, local_loads |-> 1]

\* on_open: whether it raised, whether the local table exists after it, what
\* it leaves in the local table, the count it returns, the number of
\* statements it ran on the remote cursor and of bulk loads it ran on the
\* local one.  log_to_postgres at level ERROR ends the call: an option that is
\* missing stops on_open before its first statement.
on_open(remote, exists, local) ==
  IF FirstMissing(SelectionOptions) # "none"
  THEN [raised |-> TRUE, exists |-> exists,
        local_table |-> local, count |-> 0,
        remote_calls |-> 0, local_loads |-> 0]
  ELSE IF exists
  THEN [raised |-> FALSE, exists |-> TRUE,
        local_table |-> local, count |-> get_count(local),
        remote_calls |-> 0, local_loads |-> 0]
  ELSE LET fetched == execute_fetch_statement(remote, SelectionQualSet)
           loaded  == insert_values(EmptyBag, fetched)
       IN [raised |-> FALSE, exists |-> TRUE,
           local_table |-> loaded, count |-> get_count(loaded),
           remote_calls |-> 1, local_loads |-> 1]

\* The body of the fetch_locally generator from the i-th selection qual on:
\* every selection qual found in quals runs the local query and yields its rows.
RECURSIVE fetch_locally_rows(_, _, _)
fetch_locally_rows(i, local, quals) ==
  IF i > Len(selection_quals) THEN EmptyBag
  ELSE (IF selection_quals[i] \in quals
        THEN execute_fetch_statement(local, quals) ELSE EmptyBag)
       (+) fetch_locally_rows(i + 1, local, quals)

\* The statements the same loop runs on the local cursor: one for every
\* selection qual found in quals.
RECURSIVE fetch_locally_statements(_, _)
fetch_locally_statements(i, quals) ==
  IF i > Len(selection_quals) THEN 0
  ELSE (IF selection_quals[i] \in quals THEN 1 ELSE 0)
       + fetch_locally_statements(i + 1, quals)

\* fetch_locally holds a yield, so calling it returns a generator object
\* whatever quals is: the value the caller tests is never None.
fetch_locally(local, quals) ==
  [is_none |-> FALSE, rows |-> fetch_locally_rows(1, local, quals)]

fetch_remotely(remote, quals) == execute_fetch_statement(remote, quals)

\* Not overridden by SelectionSamplingStrategy: the SamplingStrategy default.
store_results_locally(local, fetch_results) ==
  [table |-> local, rows_added |-> 0]

\* insert_locally without the test on column_values.
insert_locally_unconditional(local, values) ==
  LET s == execute_insert_statement(local, values)
  IN [table |-> s.table, delta |-> s.rowcount]

insert_locally(local, values) ==
  IF Eligible(values)
  THEN LET s == execute_insert_statement(local, values)
       IN [table |-> s.table, delta |-> s.rowcount]
  ELSE [table |-> local, delta |-> 0]

\* insert_remotely with the test on column_values that insert_locally makes.
insert_remotely_if_eligible(remote, values) ==
  LET s == IF Eligible(values) THEN execute_insert_statement(remote, values)
           ELSE [table |-> remote, rowcount |-> 0]
  IN [raised |-> ~PrimaryKeyHolds(s.table),
      error |-> IF PrimaryKeyHolds(s.table) THEN "none" ELSE "IntegrityError",
      table |-> s.table, result |-> values]

\* The error field names the exception a call leaves by.
insert_remotely(remote, values) ==
  LET s == execute_insert_statement(remote, values)
  IN [raised |-> ~PrimaryKeyHolds(s.table),
      error |-> IF PrimaryKeyHolds(s.table) THEN "none" ELSE "IntegrityError",
      table |-> s.table, result |-> values]

\* update_locally without the both-eligible case that returns 0.
update_locally_no_both_case(local, oldvalues, newvalues) ==
  LET ran == Eligible(oldvalues) \/ Eligible(newvalues)
      s == IF ran
           THEN execute_update_statement(local, oldvalues, newvalues)
           ELSE [table |-> local, rowcount |-> 0]
      rows_added == s.rowcount
  IN [table |-> s.table,
      rowcount |-> rows_added,
      delta |-> IF Eligible(oldvalues) THEN -rows_added
                ELSE IF Eligible(newvalues) THEN rows_added
                ELSE 0]

update_locally(local, oldvalues, newvalues) ==
  LET ran == Eligible(oldvalues) \/ Eligible(newvalues)
      s == IF ran
           THEN execute_update_statement(local, oldvalues, newvalues)
           ELSE [table |-> local, rowcount |-> 0]
      rows_added == s.rowcount
  IN [table |-> s.table,
      rowcount |-> rows_added,
      delta |-> IF Eligible(oldvalues) /\ Eligible(newvalues) THEN 0
                ELSE IF Eligible(oldvalues) THEN -rows_added
                ELSE IF Eligible(newvalues) THEN rows_added
                ELSE 0]

update_remotely(remote, oldvalues, newvalues) ==
  LET s == execute_update_statement(remote, oldvalues, newvalues)
  IN [raised |-> ~PrimaryKeyHolds(s.table),
      error |-> IF PrimaryKeyHolds(s.table) THEN "none" ELSE "IntegrityError",
      table |-> s.table, result |-> newvalues]

\* delete_locally without the test on column_values.
delete_locally_unconditional(local, oldvalues) ==
  LET s == execute_delete_statement(local, oldvalues)
  IN [table |-> s.table, delta |-> s.rowcount]

delete_locally(local, oldvalues) ==
  IF Eligible(oldvalues)
  THEN LET s == execute_delete_statement(local, oldvalues)
       IN [table |-> s.table, delta |-> s.rowcount]
  ELSE [table |-> local, delta |-> 0]

delete_remotely(remote, oldvalues) ==
  LET s == execute_delete_statement(remote, oldvalues)
  IN [raised |-> FALSE, error |-> "none", table |-> s.table]

\* rowid_column, the same property in SelectionSamplingStrategy and in
\* RemoteSamplingStrategy: options.get("primary_key").  Without the option
\* log_to_postgres is called with no level, which logs the message and
\* returns, and the property returns None.
rowid_column ==
  [raised |-> FALSE, error |-> "none",
   value |-> IF "primary_key" \in options.present THEN "id" ELSE "None"]

----------------------------------------------------------------------------
\* SamplingStrategy: the defaults a strategy inherits.

SamplingStrategy_on_open(remote, exists, local) ==
  [raised |-> FALSE, exists |-> exists, local_table |-> local, count |-> 0,
   remote_calls |-> 0, local_loads |-> 0]

SamplingStrategy_fetch_locally(local, quals) ==
  [is_none |-> TRUE, rows |-> EmptyBag]

\* return None (a plain function: the value is None, no generator is made).
SamplingStrategy_fetch_remotely(remote, quals) ==
  [is_none |-> TRUE, raised |-> FALSE, error |-> "none", rows |-> EmptyBag]

SamplingStrategy_rowid_column ==
  [raised |-> TRUE, error |-> "NotImplementedError", value |-> "None"]

\* insert_locally that puts the row into the local table and counts it.
SamplingStrategy_insert_locally_mirrors(local, values) ==
  insert_locally_unconditional(local, values)

SamplingStrategy_insert_locally(local, values) ==
  [table |-> local, delta |-> 0]

\* insert_remotely without the raise: a function body of the docstring only,
\* which returns None.
SamplingStrategy_insert_remotely_silent(remote, values) ==
  [raised |-> FALSE, error |-> "none", table |-> remote, result |-> values]

SamplingStrategy_insert_remotely(remote, values) ==
  [raised |-> TRUE, error |-> "NotImplementedError", table |-> remote,
   result |-> values]

SamplingStrategy_update_remotely(remote, oldvalues, newvalues) ==
  [raised |-> TRUE, error |-> "NotImplementedError", table |-> remote,
   result |-> newvalues]

SamplingStrategy_delete_remotely(remote, oldvalues) ==
  [raised |-> TRUE, error |-> "NotImplementedError", table |-> remote]

SamplingStrategy_update_locally(local, oldvalues, newvalues) ==
  [table |-> local, rowcount |-> 0, delta |-> 0]

SamplingStrategy_delete_locally(local, oldvalues) ==
  [table |-> local, delta |-> 0]

\* Neither strategy overrides fetch_more_rows: it hands back the old count the
\* caller passed in.
fetch_more_rows(remote, local, oldvalue, newvalue) == oldvalue

----------------------------------------------------------------------------
\* RemoteSamplingStrategy.  Its methods call the execute_*_statement helpers
\* without the table name.  execute_fetch_statement then takes quals for the
\* table name and columns for the quals, and the statement it builds
\* ("SELECT * FROM [...]") is rejected by the server when the generator is
\* first advanced; the insert, update and delete helpers are one argument
\* short and raise TypeError before any statement is built.

RemoteSamplingStrategy_fetch_remotely(remote, quals) ==
  [is_none |-> FALSE, raised |-> TRUE, error |-> "ProgrammingError",
   rows |-> EmptyBag]

RemoteSamplingStrategy_insert_remotely(remote, values) ==
  [raised |-> TRUE, error |-> "TypeError", table |-> remote,
   result |-> values]

RemoteSamplingStrategy_update_remotely(remote, oldvalues, newvalues) ==
  [raised |-> TRUE, error |-> "TypeError", table |-> remote,
   result |-> newvalues]

RemoteSamplingStrategy_delete_remotely(remote, oldvalues) ==
  [raised |-> TRUE, error |-> "TypeError", table |-> remote]

----------------------------------------------------------------------------
\* self.sampling_strategy.<method>: the method of the strategy that
\* SamplingStrategyRegistry.get_strategy(options["sampling_strategy"]) built.

IsSelection == options.sampling_strategy = "selection_sampling_strategy"
IsRemote == options.sampling_strategy = "remote_sampling_strategy"

sampling_strategy_on_open(remote, exists, local) ==
  IF IsSelection THEN on_open(remote, exists, local)
  ELSE SamplingStrategy_on_open(remote, exists, local)

sampling_strategy_fetch_locally(local, quals) ==
  IF IsSelection THEN fetch_locally(local, quals)
  ELSE SamplingStrategy_fetch_locally(local, quals)

\* Both fetch_remotely methods are generators: the statement runs when the
\* rows are asked for.
sampling_strategy_fetch_remotely(remote, quals) ==
  IF IsSelection
  THEN [is_none |-> FALSE, raised |-> FALSE, error |-> "none",
        rows |-> fetch_remotely(remote, quals)]
  ELSE IF IsRemote THEN RemoteSamplingStrategy_fetch_remotely(remote, quals)
  ELSE SamplingStrategy_fetch_remotely(remote, quals)

sampling_strategy_rowid_column ==
  IF IsSelection \/ IsRemote THEN rowid_column
  ELSE SamplingStrategy_rowid_column

sampling_strategy_insert_locally(local, values) ==
  IF IsSelection THEN insert_locally(local, values)
  ELSE SamplingStrategy_insert_locally(local, values)

sampling_strategy_insert_remotely(remote, values) ==
  IF IsSelection THEN insert_remotely(remote, values)
  ELSE IF IsRemote THEN RemoteSamplingStrategy_insert_remotely(remote, values)
  ELSE SamplingStrategy_insert_remotely(remote, values)

sampling_strategy_update_locally(local, oldvalues, newvalues) ==
  IF IsSelection THEN update_locally(local, oldvalues, newvalues)
  ELSE SamplingStrategy_update_locally(local, oldvalues, newvalues)

sampling_strategy_update_remotely(remote, oldvalues, newvalues) ==
  IF IsSelection THEN update_remotely(remote, oldvalues, newvalues)
  ELSE IF IsRemote
  THEN RemoteSamplingStrategy_update_remotely(remote, oldvalues, newvalues)
  ELSE SamplingStrategy_update_remotely(remote, oldvalues, newvalues)

sampling_strategy_delete_locally(local, oldvalues) ==
  IF IsSelection THEN delete_locally(local, oldvalues)
  ELSE SamplingStrategy_delete_locally(local, oldvalues)

sampling_strategy_delete_remotely(remote, oldvalues) ==
  IF IsSelection THEN delete_remotely(remote, oldvalues)
  ELSE IF IsRemote
  THEN RemoteSamplingStrategy_delete_remotely(remote, oldvalues)
  ELSE SamplingStrategy_delete_remotely(remote, oldvalues)

----------------------------------------------------------------------------
\* The generator fetch_remotely returns, and itertools.tee over it, followed
\* one next() at a time.

\* What the statement of fetch_remotely makes the remote cursor yield, in the
\* order the server sends the rows; or the server rejects the statement, as
\* it does the one RemoteSamplingStrategy builds.
RemoteCursors ==
  {[raises |-> FALSE, rows |-> rows] :
     rows \in UNION {[1..n -> Rows] : n \in 0..MaxFetched}}
    \cup {[raises |-> TRUE, rows |-> <<>>]}

\* Calling a function that holds a yield builds the generator and runs none
\* of its body: no statement has been executed yet.
fetch_remotely_generator(cursor) ==
  [cursor |-> cursor, statements |-> 0, position |-> 0, finished |-> FALSE]

\* next() of a generator whose body executes the statement for every row it
\* is asked for.
generator_next_statement_per_row(generator) ==
  IF generator.finished
  THEN [generator |-> generator, outcome |-> "stop", values |-> <<>>]
  ELSE LET ran == [generator EXCEPT !.statements = @ + 1] IN
       IF generator.cursor.raises
       THEN [generator |-> [ran EXCEPT !.finished = TRUE],
             outcome |-> "raise", values |-> <<>>]
       ELSE IF ran.position < Len(ran.cursor.rows)
       THEN [generator |-> [ran EXCEPT !.position = @ + 1],
             outcome |-> "yield",
             values |-> <<ran.cursor.rows[ran.position + 1]>>]
       ELSE [generator |-> [ran EXCEPT !.finished = TRUE],
             outcome |-> "stop", values |-> <<>>]

\* next() of the generator: the first call runs the body from its start, which
\* executes the statement, and every call goes on to the next row of the
\* cursor; an exception or the end of the rows finishes the generator.
generator_next(generator) ==
  IF generator.finished
  THEN [generator |-> generator, outcome |-> "stop", values |-> <<>>]
  ELSE LET ran == IF generator.statements = 0
                  THEN [generator EXCEPT !.statements = 1] ELSE generator
       IN IF generator.statements = 0 /\ generator.cursor.raises
          THEN [generator |-> [ran EXCEPT !.finished = TRUE],
                outcome |-> "raise", values |-> <<>>]
          ELSE IF ran.position < Len(ran.cursor.rows)
          THEN [generator |-> [ran EXCEPT !.position = @ + 1],
                outcome |-> "yield",
                values |-> <<ran.cursor.rows[ran.position + 1]>>]
          ELSE [generator |-> [ran EXCEPT !.finished = TRUE],
                outcome |-> "stop", values |-> <<>>]

\* itertools.tee(remote_results): two iterators over the one generator, each
\* with a queue of the values the other one has drawn and it has not.
tee(generator) == [generator |-> generator, deques |-> <<<<>>, <<>>>>]

\* next() of an iterator that draws from the generator it shares and keeps
\* nothing for the other one.
tee_next_no_buffer(t, i) ==
  LET drawn == generator_next(t.generator)
  IN [tee |-> [t EXCEPT !.generator = drawn.generator],
      outcome |-> drawn.outcome, values |-> drawn.values]

\* next() of the i-th iterator of a tee: the head of its queue, or with an
\* empty queue the next value of the generator, which is also put on the
\* queue of the other iterator.
tee_next(t, i) ==
  IF t.deques[i] # <<>>
  THEN [tee |-> [t EXCEPT !.deques[i] = Tail(@)],
        outcome |-> "yield", values |-> <<Head(t.deques[i])>>]
  ELSE LET drawn == generator_next(t.generator)
       IN [tee |-> [generator |-> drawn.generator,
                    deques |-> [j \in 1..2 |->
                                  IF j = i THEN t.deques[j]
                                  ELSE t.deques[j] \o drawn.values]],
           outcome |-> drawn.outcome, values |-> drawn.values]

----------------------------------------------------------------------------
\* SamplingFdw: what each method returns and leaves behind, from the current
\* state.  A statement that raises leaves the `with` block by an exception, so
\* both connections roll back: the tables keep their contents, while an
\* assignment to rows_stored_locally made before the raise stays.

\* __init__ without the loop over the required options: a missing key then
\* raises KeyError where it is first read.
SamplingFdw_init_no_required_check ==
  LET opened == sampling_strategy_on_open(remote_table, local_table_exists,
                                          local_table)
      early == [raised |-> TRUE, error_field |-> "none",
                strategy_instantiated |-> FALSE,
                published |-> FALSE, on_open_calls |-> 0,
                rows_stored_locally_set |-> FALSE,
                rows_stored_locally |-> rows_stored_locally,
                local_table_exists |-> local_table_exists,
                local_table |-> local_table,
                remote_calls |-> 0, local_loads |-> 0]
  IN IF "table_name" \notin options.present
     THEN [early EXCEPT !.error_field = "table_name"]
     ELSE IF "sampling_strategy" \notin options.present
     THEN [early EXCEPT !.error_field = "sampling_strategy"]
     ELSE IF "name" \notin options.present
     THEN [early EXCEPT !.error_field = "name",
                        !.strategy_instantiated = TRUE]
     ELSE [raised |-> opened.raised,
           error_field |-> IF opened.raised
                           THEN FirstMissing(SelectionOptions) ELSE "none",
           strategy_instantiated |-> TRUE,
           published |-> TRUE, on_open_calls |-> 1,
           rows_stored_locally_set |-> ~opened.raised,
           rows_stored_locally |-> IF opened.raised THEN rows_stored_locally
                                   ELSE opened.count,
           local_table_exists |-> opened.exists,
           local_table |-> opened.local_table,
           remote_calls |-> opened.remote_calls,
           local_loads |-> opened.local_loads]

\* __init__ that refuses a name the registry already holds.
SamplingFdw_init_rejects_registered_name ==
  LET missing == FirstMissing(RequiredOptions)
      opened == sampling_strategy_on_open(remote_table, local_table_exists,
                                          local_table)
  IN IF missing # "none" \/ registry
     THEN [raised |-> TRUE, error_field |-> missing,
           strategy_instantiated |-> FALSE,
           published |-> FALSE, on_open_calls |-> 0,
           rows_stored_locally_set |-> FALSE,
           rows_stored_locally |-> rows_stored_locally,
           local_table_exists |-> local_table_exists,
           local_table |-> local_table,
           remote_calls |-> 0, local_loads |-> 0]
     ELSE [raised |-> opened.raised,
           error_field |-> IF opened.raised
                           THEN FirstMissing(SelectionOptions) ELSE "none",
           strategy_instantiated |-> TRUE,
           published |-> TRUE, on_open_calls |-> 1,
           rows_stored_locally_set |-> ~opened.raised,
           rows_stored_locally |-> IF opened.raised THEN rows_stored_locally
                                   ELSE opened.count,
           local_table_exists |-> opened.exists,
           local_table |-> opened.local_table,
           remote_calls |-> opened.remote_calls,
           local_loads |-> opened.local_loads]

\* __init__: the loop over the required options ends the call at the first one
\* that is missing (log_to_postgres at level ERROR does not return).  With all
\* three there, the strategy is built, the instance is put in the registry
\* under options["name"], and only then on_open runs and its count is stored.
SamplingFdw_init ==
  LET missing == FirstMissing(RequiredOptions)
      opened == sampling_strategy_on_open(remote_table, local_table_exists,
                                          local_table)
  IN IF missing # "none"
     THEN [raised |-> TRUE, error_field |-> missing,
           strategy_instantiated |-> FALSE,
           published |-> FALSE, on_open_calls |-> 0,
           rows_stored_locally_set |-> FALSE,
           rows_stored_locally |-> rows_stored_locally,
           local_table_exists |-> local_table_exists,
           local_table |-> local_table,
           remote_calls |-> 0, local_loads |-> 0]
     ELSE [raised |-> opened.raised,
           error_field |-> IF opened.raised
                           THEN FirstMissing(SelectionOptions) ELSE "none",
           strategy_instantiated |-> TRUE,
           published |-> TRUE, on_open_calls |-> 1,
           rows_stored_locally_set |-> ~opened.raised,
           rows_stored_locally |-> IF opened.raised THEN rows_stored_locally
                                   ELSE opened.count,
           local_table_exists |-> opened.exists,
           local_table |-> opened.local_table,
           remote_calls |-> opened.remote_calls,
           local_loads |-> opened.local_loads]

\* execute without the early return of the local results.
SamplingFdw_execute_no_early_return(quals, store_fails) ==
  LET remote_results == sampling_strategy_fetch_remotely(remote_table, quals)
      stored == store_results_locally(local_table, remote_results.rows)
  IN [raised |-> FALSE, error |-> "none", store_failed |-> FALSE,
      result |-> remote_results.rows, result_raises |-> remote_results.raised,
      local_answered |-> FALSE,
      remote_calls |-> 1,
      open_transactions |-> {"remote"},
      rows_stored_locally |-> rows_stored_locally + stored.rows_added,
      local_table |-> stored.table]

\* execute.  store_fails: the call of store_results_locally on a cursor of the
\* local connection (lines 176-178) raises.  Nothing catches it, so it leaves
\* execute before rows_stored_locally is assigned and before the return.  A
\* fetch_remotely that returned None makes itertools.tee raise TypeError.
\* The statement of a generator runs when the caller first asks the returned
\* generator for a row, which is after the `with` block has been left:
\* result_raises tells that it raises then, and open_transactions names the
\* connections on which that statement began a transaction that nothing in
\* this call commits or rolls back.
SamplingFdw_execute(quals, store_fails) ==
  LET local_results == sampling_strategy_fetch_locally(local_table, quals) IN
  IF ~local_results.is_none
  THEN [raised |-> FALSE, error |-> "none", store_failed |-> FALSE,
        result |-> local_results.rows, result_raises |-> FALSE,
        local_answered |-> TRUE,
        remote_calls |-> 0,
        open_transactions |-> IF quals \cap SelectionQualSet # {}
                              THEN {"local"} ELSE {},
        rows_stored_locally |-> rows_stored_locally,
        local_table |-> local_table]
  ELSE LET remote_results ==
             sampling_strategy_fetch_remotely(remote_table, quals)
           stored == store_results_locally(local_table, remote_results.rows)
       IN IF remote_results.is_none
          THEN [raised |-> TRUE, error |-> "TypeError",
                store_failed |-> FALSE,
                result |-> EmptyBag, result_raises |-> FALSE,
                local_answered |-> FALSE,
                remote_calls |-> 0,
                open_transactions |-> {},
                rows_stored_locally |-> rows_stored_locally,
                local_table |-> local_table]
          ELSE IF store_fails
          THEN [raised |-> TRUE, error |-> "Error",
                store_failed |-> TRUE,
                result |-> EmptyBag, result_raises |-> FALSE,
                local_answered |-> FALSE,
                remote_calls |-> 0,
                open_transactions |-> {},
                rows_stored_locally |-> rows_stored_locally,
                local_table |-> local_table]
          ELSE [raised |-> FALSE, error |-> "none",
                store_failed |-> FALSE,
                result |-> remote_results.rows,
                result_raises |-> remote_results.raised,
                local_answered |-> FALSE,
                remote_calls |-> 1,
                open_transactions |-> {"remote"},
                rows_stored_locally |->
                  rows_stored_locally + stored.rows_added,
                local_table |-> stored.table]

\* insert with the remote half first: a raise there leaves before the
\* accumulator is touched.
SamplingFdw_insert_remote_first(values) ==
  LET loc == sampling_strategy_insert_locally(local_table, values)
      rem == sampling_strategy_insert_remotely(remote_table, values)
  IN [raised |-> rem.raised, error |-> rem.error,
      rows_stored_locally |-> IF rem.raised THEN rows_stored_locally
                              ELSE rows_stored_locally + loc.delta,
      local_table |-> IF rem.raised THEN local_table ELSE loc.table,
      remote_table |-> IF rem.raised THEN remote_table ELSE rem.table,
      result |-> rem.result]

\* insert on connections that commit every statement: a raise in the remote
\* half leaves the local INSERT in place.
SamplingFdw_insert_no_rollback(values) ==
  LET loc == sampling_strategy_insert_locally(local_table, values)
      rem == sampling_strategy_insert_remotely(remote_table, values)
  IN [raised |-> rem.raised, error |-> rem.error,
      rows_stored_locally |-> rows_stored_locally + loc.delta,
      local_table |-> loc.table,
      remote_table |-> IF rem.raised THEN remote_table ELSE rem.table,
      result |-> rem.result]

SamplingFdw_insert(values) ==
  LET loc == sampling_strategy_insert_locally(local_table, values)
      rem == sampling_strategy_insert_remotely(remote_table, values)
  IN [raised |-> rem.raised, error |-> rem.error,
      rows_stored_locally |-> rows_stored_locally + loc.delta,
      local_table |-> IF rem.raised THEN local_table ELSE loc.table,
      remote_table |-> IF rem.raised THEN remote_table ELSE rem.table,
      result |-> rem.result]

SamplingFdw_update(oldvalues, newvalues) ==
  LET loc == sampling_strategy_update_locally(local_table, oldvalues,
                                              newvalues)
      rem == sampling_strategy_update_remotely(remote_table, oldvalues,
                                               newvalues)
  IN [raised |-> rem.raised, error |-> rem.error,
      rows_stored_locally |-> rows_stored_locally + loc.delta,
      local_table |-> IF rem.raised THEN local_table ELSE loc.table,
      remote_table |-> IF rem.raised THEN remote_table ELSE rem.table,
      result |-> rem.result]

SamplingFdw_delete(oldvalues) ==
  LET loc == sampling_strategy_delete_locally(local_table, oldvalues)
      rem == sampling_strategy_delete_remotely(remote_table, oldvalues)
  IN [raised |-> rem.raised, error |-> rem.error,
      rows_stored_locally |-> rows_stored_locally - loc.delta,
      local_table |-> IF rem.raised THEN local_table ELSE loc.table,
      remote_table |-> IF rem.raised THEN remote_table ELSE rem.table]

\* The rowid_column property: what the strategy's property gives.
SamplingFdw_rowid_column == sampling_strategy_rowid_column

----------------------------------------------------------------------------
\* MetadataFdw.

MetadataRow(count) ==
  [name |-> name, table_name |-> table_name, rows_stored_locally |-> count]

\* What a caller may write into a row of the metadata table.
MetadataNewValues ==
  [name : NameDomain, table_name : TableNameDomain,
   rows_stored_locally : 0..MaxCount]

\* execute yields one row per registry entry; reading rows_stored_locally of
\* an instance that never got the attribute raises AttributeError.
MetadataFdw_execute ==
  IF ~registry THEN [raised |-> FALSE, rows |-> {}]
  ELSE IF ~rows_stored_locally_set THEN [raised |-> TRUE, rows |-> {}]
  ELSE [raised |-> FALSE, rows |-> {MetadataRow(rows_stored_locally)}]

\* update without the loop that rejects a change of another column.
MetadataFdw_update_no_read_only_check(oldvalues, newvalues) ==
  LET oldcount == oldvalues.rows_stored_locally
      newcount == newvalues.rows_stored_locally
      count == fetch_more_rows(remote_table, local_table, oldcount, newcount)
  IN [raised |-> FALSE, fetch_more_rows_calls |-> 1,
      rows_stored_locally |-> count]

\* update: a change of name or table_name ends the call in the loop
\* (log_to_postgres at level ERROR); otherwise the accumulator of the instance
\* registered under oldvalues["name"] becomes what fetch_more_rows returns.
MetadataFdw_update(oldvalues, newvalues) ==
  LET oldcount == oldvalues.rows_stored_locally
      newcount == newvalues.rows_stored_locally
      count == fetch_more_rows(remote_table, local_table, oldcount, newcount)
  IN IF \/ oldvalues.name # newvalues.name
        \/ oldvalues.table_name # newvalues.table_name
     THEN [raised |-> TRUE, fetch_more_rows_calls |-> 0,
           rows_stored_locally |-> rows_stored_locally]
     ELSE [raised |-> FALSE, fetch_more_rows_calls |-> 1,
           rows_stored_locally |-> count]

----------------------------------------------------------------------------
\* The state machine.

\* The history record of the last operation: whether it raised, what a read
\* returned and whether the mirror answered it, the statements run on the
\* remote cursor and the bulk loads run on the local one, whether on_open found
\* the local table, and for a write whether the old and the new row are
\* eligible and how many mirror rows matched the old row before the write, the
\* change the call made to rows_stored_locally, the rows of the generator
\* fetch_locally handed to execute, whether the store step of a read raised
\* and whether the returned generator raises, what the remote half of a write
\* returned, what a construction reported and how far it got, the calls of
\* fetch_more_rows, the exception the call left by, what rowid_column gave,
\* the connections left with a transaction open, whether a construction found
\* its name in the registry, and whether a write left the remote table as its
\* statement, run on the table as it was, leaves it, whether the call left by
\* an exception of its local half, and the number of statements fetch_locally
\* ran on the local cursor.

LastOp(op) ==
  [op |-> op, raised |-> FALSE, local_answered |-> FALSE, result |-> EmptyBag,
   remote_calls |-> 0, local_loads |-> 0, existed |-> FALSE,
   old_eligible |-> FALSE, new_eligible |-> FALSE, matched |-> 0,
   delta |-> 0, local_results |-> EmptyBag,
   store_failed |-> FALSE, result_raises |-> FALSE,
   remote_result |-> EmptyBag,
   error_field |-> "none", strategy_instantiated |-> FALSE,
   published |-> FALSE, on_open_calls |-> 0,
   fetch_more_rows_calls |-> 0,
   error |-> "none", rowid |-> "None", open_transactions |-> {},
   was_registered |-> FALSE, remote_applied |-> FALSE,
   local_failed |-> FALSE, local_statements |-> 0]

WithinBounds(count, local) ==
  /\ count \in -MaxCount..MaxCount
  /\ BagCardinality(local) <= MaxLocalRows

\* Rows the host can hand back as oldvalues: rows a scan of the foreign table
\* returned, from the mirror or from the remote table.
ScannedRows == DOMAIN remote_table \cup DOMAIN local_table

RemoteTables ==
  {SetToBag(S) : S \in {T \in SUBSET Rows : PrimaryKeyHolds(SetToBag(T))}}

\* A server process that has not constructed the wrapper: its registry is
\* empty and there is no instance to carry an accumulator.
NoBackend ==
  [registry |-> FALSE, rows_stored_locally |-> 0,
   rows_stored_locally_set |-> FALSE]

\* No remote-fallback read is in flight.
NoRemoteRead == [phase |-> "none"]

\* The state before the first construction, for a foreign table whose options
\* are one of configurations.
InitOf(configurations) ==
  /\ options \in configurations
  /\ remote_table \in RemoteTables
  /\ local_table_exists = FALSE
  /\ local_table = EmptyBag
  /\ registry = FALSE
  /\ rows_stored_locally = 0
  /\ rows_stored_locally_set = FALSE
  /\ metadata_rows = {}
  /\ other_backend = NoBackend
  /\ remote_read = NoRemoteRead
  /\ last = LastOp("none")

Init == InitOf(SelectionConfigurations)

\* SamplingFdw.__init__: a session constructs the wrapper; the local database
\* outlives the sessions, so a later construction finds the table in place.
Construct ==
  \E done \in {SamplingFdw_init} :
  /\ WithinBounds(done.rows_stored_locally, done.local_table)
  /\ registry' = (registry \/ done.published)
  /\ rows_stored_locally_set' = (IF done.published
                                 THEN done.rows_stored_locally_set
                                 ELSE rows_stored_locally_set)
  /\ local_table_exists' = done.local_table_exists
  /\ local_table' = done.local_table
  /\ rows_stored_locally' = done.rows_stored_locally
  /\ last' = [LastOp("open") EXCEPT
                !.raised = done.raised,
                !.existed = local_table_exists,
                !.remote_calls = done.remote_calls,
                !.local_loads = done.local_loads,
                !.error_field = done.error_field,
                !.strategy_instantiated = done.strategy_instantiated,
                !.published = done.published,
                !.on_open_calls = done.on_open_calls,
                !.was_registered = registry]
  /\ UNCHANGED <<other_backend, remote_read>>
  /\ UNCHANGED <<options, remote_table, metadata_rows>>

\* The methods below are called on the instance a construction returned.
Constructed == registry /\ rows_stored_locally_set

Execute(quals, store_fails) ==
  \E done \in {SamplingFdw_execute(quals, store_fails)} :
  /\ Constructed
  /\ WithinBounds(done.rows_stored_locally, done.local_table)
  /\ rows_stored_locally' = done.rows_stored_locally
  /\ local_table' = done.local_table
  /\ last' = [LastOp("execute") EXCEPT
                !.raised = done.raised,
                !.store_failed = done.store_failed,
                !.result_raises = done.result_raises,
                !.local_answered =
                  ~sampling_strategy_fetch_locally(local_table, quals).is_none,
                !.local_results =
                  sampling_strategy_fetch_locally(local_table, quals).rows,
                !.local_statements =
                  IF IsSelection THEN fetch_locally_statements(1, quals)
                  ELSE 0,
                !.delta = done.rows_stored_locally - rows_stored_locally,
                !.result = done.result,
                !.remote_calls = done.remote_calls,
                !.error = done.error,
                !.open_transactions = done.open_transactions]
  /\ UNCHANGED <<other_backend, remote_read>>
  /\ UNCHANGED <<options, remote_table, local_table_exists, registry,
                 rows_stored_locally_set, metadata_rows>>

Insert(values) ==
  \E done \in {SamplingFdw_insert(values)} :
  /\ Constructed
  /\ WithinBounds(done.rows_stored_locally, done.local_table)
  /\ rows_stored_locally' = done.rows_stored_locally
  /\ local_table' = done.local_table
  /\ remote_table' = done.remote_table
  /\ last' = [LastOp("insert") EXCEPT
                !.raised = done.raised,
                !.delta = done.rows_stored_locally - rows_stored_locally,
                !.new_eligible = IsSelection /\ Eligible(values),
                !.result = IF done.raised THEN EmptyBag
                           ELSE Copies(done.result, 1),
                !.remote_result =
                  IF done.raised THEN EmptyBag
                  ELSE Copies(sampling_strategy_insert_remotely(
                                remote_table, values).result, 1),
                !.remote_calls = 1,
                !.error = done.error,
                !.remote_applied =
                  (done.remote_table =
                     execute_insert_statement(remote_table, values).table)]
  /\ UNCHANGED <<other_backend, remote_read>>
  /\ UNCHANGED <<options, local_table_exists, registry,
                 rows_stored_locally_set, metadata_rows>>

Update(oldvalues, newvalues) ==
  \E done \in {SamplingFdw_update(oldvalues, newvalues)} :
  /\ Constructed
  /\ WithinBounds(done.rows_stored_locally, done.local_table)
  /\ rows_stored_locally' = done.rows_stored_locally
  /\ local_table' = done.local_table
  /\ remote_table' = done.remote_table
  /\ last' = [LastOp("update") EXCEPT
                !.raised = done.raised,
                !.delta = done.rows_stored_locally - rows_stored_locally,
                !.old_eligible = IsSelection /\ Eligible(oldvalues),
                !.new_eligible = IsSelection /\ Eligible(newvalues),
                !.matched = Count(local_table, oldvalues),
                !.result = IF done.raised THEN EmptyBag
                           ELSE Copies(done.result, 1),
                !.remote_result =
                  IF done.raised THEN EmptyBag
                  ELSE Copies(sampling_strategy_update_remotely(
                                remote_table, oldvalues, newvalues).result, 1),
                !.remote_calls = 1,
                !.error = done.error,
                !.remote_applied =
                  (done.remote_table =
                     execute_update_statement(remote_table, oldvalues,
                                              newvalues).table)]
  /\ UNCHANGED <<other_backend, remote_read>>
  /\ UNCHANGED <<options, local_table_exists, registry,
                 rows_stored_locally_set, metadata_rows>>

Delete(oldvalues) ==
  \E done \in {SamplingFdw_delete(oldvalues)} :
  /\ Constructed
  /\ WithinBounds(done.rows_stored_locally, done.local_table)
  /\ rows_stored_locally' = done.rows_stored_locally
  /\ local_table' = done.local_table
  /\ remote_table' = done.remote_table
  /\ last' = [LastOp("delete") EXCEPT
                !.raised = done.raised,
                !.delta = done.rows_stored_locally - rows_stored_locally,
                !.old_eligible = IsSelection /\ Eligible(oldvalues),
                !.matched = Count(local_table, oldvalues),
                !.remote_calls = 1,
                !.error = done.error,
                !.remote_applied =
                  (done.remote_table =
                     execute_delete_statement(remote_table, oldvalues).table)]
  /\ UNCHANGED <<other_backend, remote_read>>
  /\ UNCHANGED <<options, local_table_exists, registry,
                 rows_stored_locally_set, metadata_rows>>

\* The host reads rowid_column when it plans a write.
RowidColumn ==
  \E done \in {SamplingFdw_rowid_column} :
  /\ Constructed
  /\ last' = [LastOp("rowid_column") EXCEPT
                !.raised = done.raised,
                !.error = done.error,
                !.rowid = done.value]
  /\ UNCHANGED <<options, remote_table, local_table_exists, local_table,
                 registry, rows_stored_locally, rows_stored_locally_set,
                 metadata_rows, other_backend, remote_read>>

\* A scan of the metadata table: the rows it yields are the old values a
\* later update of the table is called with.
MetadataExecute ==
  \E done \in {MetadataFdw_execute} :
  /\ metadata_rows' = (IF done.raised THEN metadata_rows ELSE done.rows)
  /\ last' = [LastOp("metadata_execute") EXCEPT !.raised = done.raised]
  /\ UNCHANGED <<other_backend, remote_read>>
  /\ UNCHANGED <<options, remote_table, local_table_exists, local_table,
                 registry, rows_stored_locally, rows_stored_locally_set>>

MetadataUpdate(oldvalues, newvalues) ==
  \E done \in {MetadataFdw_update(oldvalues, newvalues)} :
  /\ oldvalues \in metadata_rows
  /\ rows_stored_locally' = done.rows_stored_locally
  /\ last' = [LastOp("metadata_update") EXCEPT
                !.raised = done.raised,
                !.delta = done.rows_stored_locally - rows_stored_locally,
                !.fetch_more_rows_calls = done.fetch_more_rows_calls]
  /\ UNCHANGED <<other_backend, remote_read>>
  /\ UNCHANGED <<options, remote_table, local_table_exists, local_table,
                 registry, rows_stored_locally_set, metadata_rows>>

\* The remote-fallback path of execute (lines 172-179) one step at a time,
\* for a strategy whose store_results_locally draws rows from the iterator it
\* is handed and returns 0 as the default does.

\* Lines 173-175: fetch_locally returned None; fetch_remotely builds its
\* generator and tee makes the two iterators.  cursor is what the remote
\* cursor yields once the statement has run.
FetchRemotely(cursor) ==
  /\ Constructed
  /\ remote_read.phase = "none"
  /\ sampling_strategy_fetch_locally(local_table, {}).is_none
  /\ remote_read' = [phase |-> "store", cursor |-> cursor,
                     tee |-> tee(fetch_remotely_generator(cursor)),
                     stored |-> <<>>, returned |-> <<>>, outcome |-> "none"]
  /\ UNCHANGED <<options, remote_table, local_table_exists, local_table,
                 registry, rows_stored_locally, rows_stored_locally_set,
                 metadata_rows, other_backend, last>>

\* Lines 176-178: store_results_locally asks its iterator, the first of the
\* tee, for a row.  An exception leaves store_results_locally and execute.
StoreNext ==
  /\ remote_read.phase = "store"
  /\ \E drawn \in {tee_next(remote_read.tee, 1)} :
       IF drawn.outcome = "raise"
       THEN /\ remote_read' = NoRemoteRead
            /\ last' = [LastOp("execute") EXCEPT
                          !.raised = TRUE, !.store_failed = TRUE,
                          !.error = "ProgrammingError",
                          !.remote_calls = drawn.tee.generator.statements]
       ELSE /\ remote_read' = [remote_read EXCEPT
                                 !.tee = drawn.tee,
                                 !.stored = @ \o drawn.values]
            /\ UNCHANGED last
  /\ UNCHANGED <<options, remote_table, local_table_exists, local_table,
                 registry, rows_stored_locally, rows_stored_locally_set,
                 metadata_rows, other_backend>>

\* Lines 176-179: store_results_locally returns 0, which is added to
\* rows_stored_locally, and execute returns the second iterator of the tee.
Return ==
  /\ remote_read.phase = "store"
  /\ remote_read' = [remote_read EXCEPT !.phase = "returned"]
  /\ last' = [LastOp("execute") EXCEPT
                !.remote_calls = remote_read.tee.generator.statements]
  /\ UNCHANGED <<options, remote_table, local_table_exists, local_table,
                 registry, rows_stored_locally, rows_stored_locally_set,
                 metadata_rows, other_backend>>

\* The host asks the iterator execute returned for a row, until the iterator
\* ends or raises.  The read is then kept as delivered; a later read starts from
\* a generator of its own and takes nothing from this one.
CallerNext ==
  /\ remote_read.phase = "returned"
  /\ \E drawn \in {tee_next(remote_read.tee, 2)} :
       remote_read' = [remote_read EXCEPT
                         !.tee = drawn.tee,
                         !.returned = @ \o drawn.values,
                         !.phase = IF drawn.outcome = "yield"
                                   THEN "returned" ELSE "delivered",
                         !.outcome = drawn.outcome]
  /\ UNCHANGED <<options, remote_table, local_table_exists, local_table,
                 registry, rows_stored_locally, rows_stored_locally_set,
                 metadata_rows, other_backend, last>>

\* A selection mirror with all its options, read and written through
\* SamplingFdw.
Next ==
  \/ Construct
  \/ \E quals \in QualSets : Execute(quals, FALSE)
  \/ \E values \in Rows : Insert(values)
  \/ \E oldvalues \in ScannedRows, newvalues \in Rows :
       Update(oldvalues, newvalues)
  \/ \E oldvalues \in ScannedRows : Delete(oldvalues)

Spec == Init /\ [][Next]_vars

\* The runs in which no call raises: every write completes.
NextOk ==
  \/ Construct
  \/ \E quals \in QualSets : Execute(quals, FALSE)
  \/ \E values \in Rows : Insert(values) /\ ~last'.raised
  \/ \E oldvalues \in ScannedRows, newvalues \in Rows :
       Update(oldvalues, newvalues) /\ ~last'.raised
  \/ \E oldvalues \in ScannedRows : Delete(oldvalues) /\ ~last'.raised

SpecOk == Init /\ [][NextOk]_vars

\* Every configuration, the store step of a read that may raise, and the
\* metadata table next to the foreign table.  The writes that move the
\* accumulator between a scan of the metadata table and an update of it are
\* inserts and deletes; updates of the foreign table are left to Spec.
InitFdw == InitOf(Configurations)

NextFdw ==
  \/ Construct
  \/ \E quals \in QualSets, store_fails \in BOOLEAN :
       Execute(quals, store_fails)
  \/ \E values \in Rows : Insert(values)
  \/ \E oldvalues \in ScannedRows : Delete(oldvalues)
  \/ MetadataExecute
  \/ \E oldvalues \in metadata_rows, newvalues \in MetadataNewValues :
       MetadataUpdate(oldvalues, newvalues)
  \/ RowidColumn

SpecFdw == InitFdw /\ [][NextFdw]_vars

\* The strategies that keep no mirror, with every operation of SamplingFdw and
\* of MetadataFdw.
InitMirrorless == InitOf(MirrorlessConfigurations)

NextMirrorless ==
  \/ Construct
  \/ \E quals \in QualSets, store_fails \in BOOLEAN :
       Execute(quals, store_fails)
  \/ \E values \in Rows : Insert(values)
  \/ \E oldvalues \in ScannedRows, newvalues \in Rows :
       Update(oldvalues, newvalues)
  \/ \E oldvalues \in ScannedRows : Delete(oldvalues)
  \/ MetadataExecute
  \/ \E oldvalues \in metadata_rows, newvalues \in MetadataNewValues :
       MetadataUpdate(oldvalues, newvalues)
  \/ RowidColumn

SpecMirrorless == InitMirrorless /\ [][NextMirrorless]_vars

\* PostgreSQL serves every session by a server process of its own, and
\* Multicorn builds the wrapper inside that process: SamplingFdw.registry, the
\* instance and its rows_stored_locally are objects of one process, while
\* the two databases are shared.  The model keeps one process in registry,
\* rows_stored_locally and rows_stored_locally_set and the other one in
\* other_backend; the host running the other session next swaps them.  A call
\* is made between two statements of the other session, never inside one.
SwitchBackend ==
  /\ other_backend' = [registry |-> registry,
                       rows_stored_locally |-> rows_stored_locally,
                       rows_stored_locally_set |-> rows_stored_locally_set]
  /\ registry' = other_backend.registry
  /\ rows_stored_locally' = other_backend.rows_stored_locally
  /\ rows_stored_locally_set' = other_backend.rows_stored_locally_set
  /\ last' = LastOp("switch")
  /\ UNCHANGED <<options, remote_table, local_table_exists, local_table,
                 metadata_rows, remote_read>>

\* Two sessions on one selection mirror.
NextSessions ==
  \/ Construct
  \/ SwitchBackend
  \/ \E quals \in QualSets : Execute(quals, FALSE)
  \/ \E values \in Rows : Insert(values)
  \/ \E oldvalues \in ScannedRows, newvalues \in Rows :
       Update(oldvalues, newvalues)
  \/ \E oldvalues \in ScannedRows : Delete(oldvalues)

SpecSessions == Init /\ [][NextSessions]_vars

\* A remote-fallback read followed row by row, on a table of
\* remote_sampling_strategy.
InitRemoteRead ==
  InitOf({c \in Configurations :
            c.sampling_strategy = "remote_sampling_strategy"})

NextRemoteRead ==
  \/ Construct
  \/ \E cursor \in RemoteCursors : FetchRemotely(cursor)
  \/ StoreNext
  \/ Return
  \/ CallerNext

SpecRemoteRead == InitRemoteRead /\ [][NextRemoteRead]_vars

----------------------------------------------------------------------------
\* Properties.

EligibleRows(table) == Restrict(table, {r \in DOMAIN table : Eligible(r)})
MatchingRows(table, quals) == {r \in DOMAIN table : WhereQuals(r, quals)}

\* C1: in the runs where no call raises, after construction and any sequence
\* of inserts, updates and deletes rows_stored_locally equals the number of
\* rows in the mirror table.
C1_AccumulatorEqualsMirrorCount ==
  registry => rows_stored_locally = get_count(local_table)

\* C2: when fetch_locally returns an answer, empty or not, execute returns that
\* answer, runs nothing on the remote store and leaves the accumulator alone.
C2_LocalAnswerIsReturnedWithoutRemoteCall ==
  (last.op = "execute" /\ last.local_answered) =>
    /\ last.result = last.local_results
    /\ last.remote_calls = 0
    /\ last.delta = 0

C2_Witness ==
  /\ last.op = "execute"
  /\ last.local_answered
  /\ last.result = EmptyBag
  /\ local_table # EmptyBag
  /\ last.remote_calls = 0

\* C3: a read whose quals hold none of the selection quals gets no answer from
\* fetch_locally, and execute then fetches from the remote store.
C3_NoSelectionQualFallsBackToRemote ==
  [][last'.op = "execute" =>
       \A quals \in QualSets :
         (Execute(quals, FALSE) /\ quals \cap SelectionQualSet = {}) =>
           (~last'.local_answered /\ last'.remote_calls >= 1)]_vars

\* C4: in the runs where no call raises, a read answered from the mirror
\* returns exactly the remote rows that match the quals.
C4_LocalAnswerIsCompleteAndCorrect ==
  [][last'.op = "execute" =>
       \A quals \in QualSets :
         (Execute(quals, FALSE) /\ last'.local_answered) =>
           BagToSet(last'.result) = MatchingRows(remote_table, quals)]_vars

\* C5: on_open on a mirror table that does not exist yet loads exactly the
\* remote rows whose column value is in column_values, and returns their number.
C5_OnOpenLoadsTheAllowList ==
  [][(last'.op = "open" /\ Construct /\ ~local_table_exists) =>
       /\ local_table' = EligibleRows(remote_table)
       /\ rows_stored_locally' = get_count(EligibleRows(remote_table))]_vars

\* C6: on_open on a mirror table that exists fetches nothing from the remote
\* store, loads nothing into the mirror and returns the mirror's row count; a
\* call that follows another returns the same count.
C6_OnOpenIsIdempotent ==
  [][(last'.op = "open" /\ Construct /\ local_table_exists) =>
       /\ last'.remote_calls = 0
       /\ last'.local_loads = 0
       /\ local_table' = local_table
       /\ rows_stored_locally' = get_count(local_table)
       /\ (last.op = "open" => rows_stored_locally' = rows_stored_locally)]_vars

C6_Witness ==
  /\ last.op = "open"
  /\ last.existed
  /\ local_table # EmptyBag
  /\ rows_stored_locally = get_count(local_table)

\* C7: an update changes the accumulator by the number of mirror rows the
\* update statement matches when the row turns eligible, by minus that number
\* when it turns ineligible, and by 0 when its eligibility does not change.
C7_UpdateDeltaByCase ==
  last.op = "update" =>
    last.delta = (IF ~last.old_eligible /\ last.new_eligible
                  THEN last.matched
                  ELSE IF last.old_eligible /\ ~last.new_eligible
                  THEN -last.matched
                  ELSE 0)

C7_Witness ==
  /\ last.op = "update"
  /\ ~last.raised
  /\ last.old_eligible
  /\ ~last.new_eligible
  /\ last.matched = 1

\* C8: in the runs where no call raises, every row of the mirror table is
\* eligible.
C8_MirrorHoldsOnlyEligibleRows ==
  registry => \A r \in DOMAIN local_table : Eligible(r)

\* C9: an update that does not raise and moves a row that is not in the mirror
\* from ineligible to eligible leaves the new row in the mirror and adds 1 to
\* the accumulator.
C9_UpdateIntoAllowListMirrorsTheRow ==
  [][last'.op = "update" =>
       \A oldvalues \in ScannedRows, newvalues \in Rows :
         (/\ Update(oldvalues, newvalues)
          /\ ~last'.raised
          /\ ~Eligible(oldvalues)
          /\ Eligible(newvalues)
          /\ Count(local_table, oldvalues) = 0) =>
           /\ Count(local_table', newvalues) >= 1
           /\ rows_stored_locally' = rows_stored_locally + 1]_vars

\* C10: an insert adds 1 to the accumulator when the row is eligible and 0
\* otherwise, and an insert that does not raise adds the row to the mirror
\* exactly when it is eligible.
C10_InsertMirrorsIffEligible ==
  [][last'.op = "insert" =>
       \A values \in Rows :
         Insert(values) =>
           /\ rows_stored_locally' =
                rows_stored_locally + (IF Eligible(values) THEN 1 ELSE 0)
           /\ ~last'.raised =>
                local_table' = (IF Eligible(values)
                                THEN local_table (+) Copies(values, 1)
                                ELSE local_table)]_vars

C10_Witness ==
  /\ last.op = "insert"
  /\ ~last.raised
  /\ last.new_eligible
  /\ rows_stored_locally = 1
  /\ get_count(local_table) = 1

\* C11: a delete removes from the mirror the rows that match the old row exactly
\* when the old row is eligible, and subtracts their number from the
\* accumulator; the delete of an ineligible row leaves the mirror and the
\* accumulator alone; in both cases the remote delete is made.
C11_DeleteMirrorsIffEligible ==
  [][last'.op = "delete" =>
       \A oldvalues \in ScannedRows :
         Delete(oldvalues) =>
           /\ local_table' =
                (IF Eligible(oldvalues)
                 THEN local_table
                        (-) Copies(oldvalues, Count(local_table, oldvalues))
                 ELSE local_table)
           /\ rows_stored_locally' =
                rows_stored_locally
                  - (IF Eligible(oldvalues)
                     THEN Count(local_table, oldvalues) ELSE 0)
           /\ rows_stored_locally - rows_stored_locally' =
                get_count(local_table) - get_count(local_table')
           /\ Count(remote_table', oldvalues) = 0]_vars

C11_Witness ==
  /\ last.op = "delete"
  /\ last.old_eligible
  /\ last.matched = 1
  /\ last.delta = -1
  /\ local_table = EmptyBag
  /\ remote_table = EmptyBag

\* C12: when the store step of a remote-fallback read raises, execute does not
\* raise: it returns the rows it fetched and leaves the accumulator alone.
C12_StoreFailureIsNotPropagated ==
  (last.op = "execute" /\ last.store_failed) =>
    /\ ~last.raised
    /\ last.delta = 0

C14_FailedWriteKeepsAccumulatorExact ==
  [][(/\ last'.op \in {"insert", "update", "delete"}
      /\ last'.raised
      /\ rows_stored_locally = get_count(local_table)) =>
       rows_stored_locally' = get_count(local_table')]_vars

C16_PublishedAfterOnOpen ==
  /\ registry => rows_stored_locally_set
  /\ (last.op = "open" /\ last.raised) => ~last.published

\* C17: a construction with sampling_strategy, name or table_name missing
\* raises with an error that names a missing one of them, builds no strategy,
\* does not run on_open and puts nothing in the registry.
C17_MissingRequiredOptionFailsEarly ==
  (last.op = "open"
     /\ \E i \in 1..Len(RequiredOptions) :
          RequiredOptions[i] \notin options.present) =>
    /\ last.raised
    /\ \E i \in 1..Len(RequiredOptions) :
         /\ RequiredOptions[i] \notin options.present
         /\ last.error_field = RequiredOptions[i]
    /\ ~last.strategy_instantiated
    /\ last.on_open_calls = 0
    /\ ~last.published
    /\ ~registry

C17_Witness ==
  /\ last.op = "open"
  /\ last.raised
  /\ "name" \notin options.present
  /\ last.error_field = "name"
  /\ ~registry

\* C18: an update of rows_stored_locally through the metadata table never
\* lowers the accumulator.
C18_RowTargetNeverShrinks ==
  (last.op = "metadata_update" /\ ~last.raised) => last.delta >= 0

\* C19: an update of rows_stored_locally through the metadata table that does
\* not raise leaves the accumulator at the value it had before the call (no
\* strategy grows the mirror), and equal to the mirror's row count when it was
\* before the call.
C19_RowTargetLeavesExactCount ==
  [][(last'.op = "metadata_update" /\ ~last'.raised) =>
       /\ rows_stored_locally' = rows_stored_locally
       /\ rows_stored_locally = get_count(local_table) =>
            rows_stored_locally' = get_count(local_table')]_vars

\* C20: an update of the metadata table that changes name or table_name
\* raises, does not call fetch_more_rows and changes nothing.
C20_ReadOnlyFieldsAreRejected ==
  [][last'.op = "metadata_update" =>
       \A oldvalues \in metadata_rows, newvalues \in MetadataNewValues :
         (/\ MetadataUpdate(oldvalues, newvalues)
          /\ \/ oldvalues.name # newvalues.name
             \/ oldvalues.table_name # newvalues.table_name) =>
           /\ last'.raised
           /\ last'.fetch_more_rows_calls = 0
           /\ UNCHANGED <<options, remote_table, local_table_exists,
                          local_table, registry, rows_stored_locally,
                          rows_stored_locally_set, metadata_rows>>]_vars

\* The update is rejected although the row it was called with is stale.
C20_Witness ==
  /\ last.op = "metadata_update"
  /\ last.raised
  /\ last.fetch_more_rows_calls = 0
  /\ \E row \in metadata_rows : row.rows_stored_locally # rows_stored_locally

\* C21: with no primary_key option, reading rowid_column of a selection or a
\* remote strategy raises an error instead of returning a value.
C21_RowidColumnWithoutPrimaryKeyFails ==
  (/\ last.op = "rowid_column"
   /\ options.sampling_strategy \in Strategies
   /\ "primary_key" \notin options.present) =>
    /\ last.raised
    /\ last.error # "none"

\* C22: two sessions work on one mirror and one accumulator: the delta of a
\* write made in one session is in the accumulator the other session's
\* instance of that mirror carries, so that no delta is lost to it.
C22_WritesReachTheOneAccumulator ==
  [][(/\ last'.op \in {"insert", "update", "delete"}
      /\ other_backend.registry
      /\ other_backend.rows_stored_locally_set) =>
       other_backend'.rows_stored_locally =
         other_backend.rows_stored_locally + last'.delta]_vars

\* C23: on a remote-fallback read the rows the caller draws from what execute
\* returned are, in content and order, the rows fetch_remotely alone yields,
\* and end as its rows end, however many rows store_results_locally drew
\* from its own iterator.
C23_ReturnedRowsAreTheFetchedRows ==
  remote_read.phase \in {"returned", "delivered"} =>
    /\ Len(remote_read.returned) <= Len(remote_read.cursor.rows)
    /\ remote_read.returned =
         SubSeq(remote_read.cursor.rows, 1, Len(remote_read.returned))
    /\ remote_read.phase = "delivered" =>
         /\ remote_read.returned = remote_read.cursor.rows
         /\ remote_read.outcome =
              (IF remote_read.cursor.raises THEN "raise" ELSE "stop")

\* The store step drew one row of two, and the caller got both in order.
C23_Witness ==
  /\ remote_read.phase = "delivered"
  /\ Len(remote_read.stored) = 1
  /\ Len(remote_read.returned) = 2
  /\ remote_read.returned[1] # remote_read.returned[2]
  /\ remote_read.returned = remote_read.cursor.rows

\* C28: a remote-fallback read executes at most one statement on the remote
\* cursor, and exactly one once a row has been asked for: what
\* store_results_locally drew and what the caller drew both come, in order,
\* from the rows of that one statement.
C28_OneRemoteStatementFeedsBothCopies ==
  remote_read.phase # "none" =>
    /\ remote_read.tee.generator.statements <= 1
    /\ (\/ remote_read.stored # <<>>
        \/ remote_read.returned # <<>>
        \/ remote_read.phase = "delivered") =>
         remote_read.tee.generator.statements = 1
    /\ Len(remote_read.stored) <= Len(remote_read.cursor.rows)
    /\ remote_read.stored =
         SubSeq(remote_read.cursor.rows, 1, Len(remote_read.stored))
    /\ Len(remote_read.returned) <= Len(remote_read.cursor.rows)
    /\ remote_read.returned =
         SubSeq(remote_read.cursor.rows, 1, Len(remote_read.returned))

\* Both consumers drew both rows, and one statement was executed.
C28_Witness ==
  /\ remote_read.phase = "delivered"
  /\ Len(remote_read.stored) = 2
  /\ Len(remote_read.returned) = 2
  /\ remote_read.tee.generator.statements = 1

\* C24: on a table of remote_sampling_strategy, after any calls the
\* accumulator is 0, no local table exists and no row is in one, and every
\* read got no answer from fetch_locally and went on to the remote path.
C24_PassthroughKeepsNoMirror ==
  IsRemote =>
    /\ rows_stored_locally = 0
    /\ last.delta = 0
    /\ ~local_table_exists
    /\ local_table = EmptyBag
    /\ last.op = "execute" =>
         /\ ~last.local_answered
         /\ last.local_results = EmptyBag
         /\ (~last.raised => last.remote_calls = 1)

\* A read on the remote path, after a scan of the metadata table that showed
\* the accumulator at 0, over a remote table that holds a row.
C24_Witness ==
  /\ IsRemote
  /\ last.op = "execute"
  /\ ~last.raised
  /\ ~last.local_answered
  /\ last.remote_calls = 1
  /\ remote_table # EmptyBag
  /\ MetadataRow(0) \in metadata_rows

\* C25: on a table of remote_sampling_strategy a read whose store step does
\* not fail returns exactly the rows of the remote table that match the
\* quals, and with a primary_key option an insert, update or delete that the
\* remote table's primary key admits is made on the remote table and returns
\* the values written.
C25_PassthroughReadsAndWritesTheRemoteTable ==
  [][IsRemote =>
       /\ last'.op = "execute" =>
            \A quals \in QualSets :
              Execute(quals, FALSE) =>
                /\ ~last'.raised
                /\ ~last'.result_raises
                /\ BagToSet(last'.result) = MatchingRows(remote_table, quals)
       /\ (last'.op = "insert" /\ "primary_key" \in options.present) =>
            \A values \in Rows :
              (/\ Insert(values)
               /\ PrimaryKeyHolds(
                    execute_insert_statement(remote_table, values).table)) =>
                /\ ~last'.raised
                /\ remote_table' =
                     execute_insert_statement(remote_table, values).table
                /\ last'.result = Copies(values, 1)
       /\ (last'.op = "update" /\ "primary_key" \in options.present) =>
            \A oldvalues \in ScannedRows, newvalues \in Rows :
              (/\ Update(oldvalues, newvalues)
               /\ PrimaryKeyHolds(
                    execute_update_statement(remote_table, oldvalues,
                                             newvalues).table)) =>
                /\ ~last'.raised
                /\ remote_table' =
                     execute_update_statement(remote_table, oldvalues,
                                              newvalues).table
                /\ last'.result = Copies(newvalues, 1)
       /\ (last'.op = "delete" /\ "primary_key" \in options.present) =>
            \A oldvalues \in ScannedRows :
              Delete(oldvalues) =>
                /\ ~last'.raised
                /\ remote_table' =
                     execute_delete_statement(remote_table, oldvalues).table]_vars

\* C26: on a selection mirror an insert, update or delete that does not raise
\* leaves the remote table as the statement leaves it, whether or not the
\* old or the new row is eligible for the mirror.
C26_RemoteWritesAreUnconditional ==
  (last.op \in {"insert", "update", "delete"} /\ ~last.raised) =>
    last.remote_applied

\* A row that is not eligible was inserted: it is in the remote table and
\* not in the mirror.
C26_Witness ==
  /\ last.op = "insert"
  /\ ~last.raised
  /\ ~last.new_eligible
  /\ local_table = EmptyBag
  /\ \E r \in DOMAIN remote_table : ~Eligible(r)

\* C27: when a call of SamplingFdw or of MetadataFdw.update has returned or
\* raised, and the rows a read returned have been drawn, no statement of that
\* call is left in a transaction that is still open on the local or on the
\* remote connection.
C27_NoTransactionLeftOpen ==
  last.op \in {"execute", "insert", "update", "delete", "metadata_update"} =>
    last.open_transactions = {}

\* C29: no call takes the name out of the registry, and a construction under a
\* name the registry holds is not refused for that: it raises only when
\* on_open misses an option, and the registry then holds the new instance,
\* whose accumulator is what its on_open returned (or is not set when on_open
\* raised).
C29_RegistryKeepsAndReplaces ==
  [][/\ registry => registry'
     /\ (last'.op = "open" /\ registry) =>
          /\ last'.was_registered
          /\ last'.published
          /\ last'.raised <=> (IsSelection
                                 /\ FirstMissing(SelectionOptions) # "none")
          /\ rows_stored_locally_set' = ~last'.raised
          /\ ~last'.raised =>
               rows_stored_locally' =
                 sampling_strategy_on_open(remote_table, local_table_exists,
                                           local_table).count]_vars

\* A construction under a name the registry held: the registry holds the new
\* instance, which counted the rows of the mirror it found.
C29_Witness ==
  /\ last.op = "open"
  /\ last.was_registered
  /\ ~last.raised
  /\ last.published
  /\ registry
  /\ local_table # EmptyBag
  /\ rows_stored_locally = get_count(local_table)

\* C30: an insert, update or delete through a strategy that has the remote
\* writes of SamplingStrategy raises NotImplementedError, changes the
\* accumulator by 0 and leaves the local database without a table or a row;
\* reading rowid_column of such a strategy raises the same error.
C30_DefaultWritesAreUnsupported ==
  options.sampling_strategy = DefaultStrategy =>
    /\ last.op \in {"insert", "update", "delete"} =>
         /\ last.raised
         /\ last.error = "NotImplementedError"
         /\ last.delta = 0
         /\ rows_stored_locally = 0
    /\ last.op = "rowid_column" =>
         /\ last.raised
         /\ last.error = "NotImplementedError"
    /\ ~local_table_exists
    /\ local_table = EmptyBag

C30_Witness ==
  /\ options.sampling_strategy = DefaultStrategy
  /\ last.op = "insert"
  /\ last.raised
  /\ last.error = "NotImplementedError"
  /\ registry
  /\ rows_stored_locally = 0
  /\ remote_table = EmptyBag

----------------------------------------------------------------------------
\* Writes whose local half can fail.  A statement on the mirror can raise (the
\* local server went away, the table was dropped behind the wrapper, a value
\* does not fit its column); local_fails says whether the statement of this
\* call does.  Only a local half that runs a statement can fail: the
\* SamplingStrategy defaults and an ineligible row run none.

insert_locally_runs(values) == IsSelection /\ Eligible(values)

update_locally_runs(oldvalues, newvalues) ==
  IsSelection /\ (Eligible(oldvalues) \/ Eligible(newvalues))

delete_locally_runs(oldvalues) == IsSelection /\ Eligible(oldvalues)

\* insert with the remote half called before the local half.
SamplingFdw_insert_under_remote_first(values, local_fails) ==
  LET rem == sampling_strategy_insert_remotely(remote_table, values)
  IN IF ~rem.raised /\ local_fails /\ insert_locally_runs(values)
     THEN [raised |-> TRUE, error |-> "Error", local_failed |-> TRUE,
           remote_calls |-> 1,
           rows_stored_locally |-> rows_stored_locally,
           local_table |-> local_table, remote_table |-> remote_table,
           result |-> values]
     ELSE [local_failed |-> FALSE, remote_calls |-> 1]
          @@ SamplingFdw_insert(values)

\* SamplingFdw.insert: insert_locally is evaluated first, as the right-hand
\* side of +=; when it raises, the accumulator is not assigned, the return
\* statement with insert_remotely is not reached, and the with block rolls
\* both connections back.
SamplingFdw_insert_under(values, local_fails) ==
  IF local_fails /\ insert_locally_runs(values)
  THEN [raised |-> TRUE, error |-> "Error", local_failed |-> TRUE,
        remote_calls |-> 0,
        rows_stored_locally |-> rows_stored_locally,
        local_table |-> local_table, remote_table |-> remote_table,
        result |-> values]
  ELSE [local_failed |-> FALSE, remote_calls |-> 1]
       @@ SamplingFdw_insert(values)

SamplingFdw_update_under(oldvalues, newvalues, local_fails) ==
  IF local_fails /\ update_locally_runs(oldvalues, newvalues)
  THEN [raised |-> TRUE, error |-> "Error", local_failed |-> TRUE,
        remote_calls |-> 0,
        rows_stored_locally |-> rows_stored_locally,
        local_table |-> local_table, remote_table |-> remote_table,
        result |-> newvalues]
  ELSE [local_failed |-> FALSE, remote_calls |-> 1]
       @@ SamplingFdw_update(oldvalues, newvalues)

SamplingFdw_delete_under(oldvalues, local_fails) ==
  IF local_fails /\ delete_locally_runs(oldvalues)
  THEN [raised |-> TRUE, error |-> "Error", local_failed |-> TRUE,
        remote_calls |-> 0,
        rows_stored_locally |-> rows_stored_locally,
        local_table |-> local_table, remote_table |-> remote_table]
  ELSE [local_failed |-> FALSE, remote_calls |-> 1]
       @@ SamplingFdw_delete(oldvalues)

InsertUnder(values, local_fails) ==
  \E done \in {SamplingFdw_insert_under(values, local_fails)} :
  /\ Constructed
  /\ WithinBounds(done.rows_stored_locally, done.local_table)
  /\ rows_stored_locally' = done.rows_stored_locally
  /\ local_table' = done.local_table
  /\ remote_table' = done.remote_table
  /\ last' = [LastOp("insert") EXCEPT
                !.raised = done.raised,
                !.delta = done.rows_stored_locally - rows_stored_locally,
                !.new_eligible = IsSelection /\ Eligible(values),
                !.result = IF done.raised THEN EmptyBag
                           ELSE Copies(done.result, 1),
                !.remote_calls = done.remote_calls,
                !.error = done.error,
                !.local_failed = done.local_failed]
  /\ UNCHANGED <<other_backend, remote_read>>
  /\ UNCHANGED <<options, local_table_exists, registry,
                 rows_stored_locally_set, metadata_rows>>

UpdateUnder(oldvalues, newvalues, local_fails) ==
  \E done \in {SamplingFdw_update_under(oldvalues, newvalues, local_fails)} :
  /\ Constructed
  /\ WithinBounds(done.rows_stored_locally, done.local_table)
  /\ rows_stored_locally' = done.rows_stored_locally
  /\ local_table' = done.local_table
  /\ remote_table' = done.remote_table
  /\ last' = [LastOp("update") EXCEPT
                !.raised = done.raised,
                !.delta = done.rows_stored_locally - rows_stored_locally,
                !.old_eligible = IsSelection /\ Eligible(oldvalues),
                !.new_eligible = IsSelection /\ Eligible(newvalues),
                !.matched = Count(local_table, oldvalues),
                !.result = IF done.raised THEN EmptyBag
                           ELSE Copies(done.result, 1),
                !.remote_calls = done.remote_calls,
                !.error = done.error,
                !.local_failed = done.local_failed]
  /\ UNCHANGED <<other_backend, remote_read>>
  /\ UNCHANGED <<options, local_table_exists, registry,
                 rows_stored_locally_set, metadata_rows>>

DeleteUnder(oldvalues, local_fails) ==
  \E done \in {SamplingFdw_delete_under(oldvalues, local_fails)} :
  /\ Constructed
  /\ WithinBounds(done.rows_stored_locally, done.local_table)
  /\ rows_stored_locally' = done.rows_stored_locally
  /\ local_table' = done.local_table
  /\ remote_table' = done.remote_table
  /\ last' = [LastOp("delete") EXCEPT
                !.raised = done.raised,
                !.delta = done.rows_stored_locally - rows_stored_locally,
                !.old_eligible = IsSelection /\ Eligible(oldvalues),
                !.matched = Count(local_table, oldvalues),
                !.remote_calls = done.remote_calls,
                !.error = done.error,
                !.local_failed = done.local_failed]
  /\ UNCHANGED <<other_backend, remote_read>>
  /\ UNCHANGED <<options, local_table_exists, registry,
                 rows_stored_locally_set, metadata_rows>>

\* The selection strategy with writes whose local statement can fail.
NextLocalFailure ==
  \/ Construct
  \/ \E values \in Rows, local_fails \in BOOLEAN :
       InsertUnder(values, local_fails)
  \/ \E oldvalues \in ScannedRows, newvalues \in Rows, local_fails \in BOOLEAN :
       UpdateUnder(oldvalues, newvalues, local_fails)
  \/ \E oldvalues \in ScannedRows, local_fails \in BOOLEAN :
       DeleteUnder(oldvalues, local_fails)

SpecLocalFailure == Init /\ [][NextLocalFailure]_vars

\* C31: when the local half of an insert, update or delete fails, the call
\* raises, its remote half is never started, the remote table is as it was
\* before the call and the accumulator keeps its value from before the call.
C31_LocalFailureStopsTheCall ==
  [][last'.local_failed =>
       /\ last'.raised
       /\ last'.remote_calls = 0
       /\ remote_table' = remote_table
       /\ rows_stored_locally' = rows_stored_locally]_vars

\* A write of each kind has failed in its local half, on a non-empty remote
\* table and a counted mirror.
C31_Witness ==
  /\ last.local_failed
  /\ last.op \in {"insert", "update", "delete"}
  /\ last.remote_calls = 0
  /\ rows_stored_locally > 0
  /\ remote_table # EmptyBag

\* C32: the accumulator of the registered instance is never negative.
C32_AccumulatorIsNeverNegative ==
  (registry /\ rows_stored_locally_set) => rows_stored_locally >= 0

----------------------------------------------------------------------------
\* Allow-lists as they can be written in column_values, one of them with a
\* value written twice.

RepeatedColumnValues == <<"foo", "foo">>

AllowListConfigurations ==
  SelectionConfigurations
    \cup {Options("selection_sampling_strategy", OptionKeys,
                  RepeatedColumnValues)}

InitAllowList == InitOf(AllowListConfigurations)

NextAllowList ==
  \/ Construct
  \/ \E quals \in QualSets : Execute(quals, FALSE)
  \/ \E values \in Rows : Insert(values)
  \/ \E oldvalues \in ScannedRows : Delete(oldvalues)

SpecAllowList == InitAllowList /\ [][NextAllowList]_vars

\* C33: a read that fetch_locally answers from the mirror runs the local query
\* once and returns every row of its result once: as often as the mirror
\* holds it.
C33_LocalQueryRunsOnce ==
  (last.op = "execute" /\ ~last.raised /\ last.local_statements > 0) =>
    /\ last.local_statements = 1
    /\ \A r \in DOMAIN last.result :
         Count(last.result, r) = Count(local_table, r)

====
